---- MODULE Spec2Model ----
(***************************************************************************)
(* Model of quicklauncher_py.search.SearchEngine (a thin wrapper around a  *)
(* Whoosh index) and of the backend start-up code that uses it.            *)
(*                                                                         *)
(* Two SearchEngine objects (the GUI process and the HTTP backend both     *)
(* default to ~/.quicklauncher_index) share one index directory.  The      *)
(* Whoosh calls the wrapper makes are modelled by what the library does:   *)
(*   index.open_dir   reads the table of contents, takes no lock;          *)
(*   index.create_in  drops the old table of contents, writes an empty one;*)
(*   ix.writer()      takes the write lock (LockError if it is held) and   *)
(*                    snapshots the committed segments;                    *)
(*   update_document  deletes the COMMITTED documents with the same unique *)
(*                    field and adds the new one (documents added earlier  *)
(*                    by the same writer are not replaced);                *)
(*   commit           publishes the writer's segments and frees the lock;  *)
(*   searcher.search  raises ValueError for limit < 1.                     *)
(***************************************************************************)
EXTENDS Integers, Sequences, FiniteSets

VARIABLES disk, index_dir, pc, ix, writer, lock, last

vars == <<disk, index_dir, pc, ix, writer, lock, last>>
progVars == <<disk, index_dir, pc, ix, writer, lock>>

(* ---------------------------------------------------------------- bounds *)
MaxDocs == 2
MaxBatch == 2
MaxLimit == 2

Engines == {"e1", "e2"}
Paths == {"/a/x", "/b/y"}
Titles == {"x", "y"}
Queries == {"", "x", "y", "/a/x", "<unparsable>"}
Limits == 0..MaxLimit

(* ------------------------------------------------------------ documents *)
GoodDocs == [path : Paths, title : Titles]
BadDocs == [title : {"x"}]
DocInputs == GoodDocs \cup BadDocs

SeqsUpTo(S, n) == UNION {[1..k -> S] : k \in 0..n}
Batches == SeqsUpTo(DocInputs, MaxBatch)

\* os.path.basename of the modelled paths (the fname of os.walk)
Basename(p) == IF p = "/a/x" THEN "x" ELSE "y"

\* whitespace-separated words of a string (analyzer / query parser tokens)
Tokens(s) ==
  CASE s = "x" -> {"x"}
    [] s = "y" -> {"y"}
    [] s = "x y" -> {"x", "y"}
    [] s = "/a/x" -> {"/a/x"}
    [] s = "/b/y" -> {"/b/y"}
    [] OTHER -> {}

\* parser.parse(query) raises
ParseRaises(q) == q = "<unparsable>"

\* MultifieldParser(["title", "path"]): every word of the query must hit the
\* title (one of its terms) or the path (the whole, untokenized value)
Matches(d, q) == \A w \in Tokens(q) : w \in Tokens(d.title) \/ w = d.path

RECURSIVE SelectMatching(_, _)
SelectMatching(docs, q) ==
  IF docs = <<>> THEN <<>>
  ELSE IF Tokens(q) # {} /\ Matches(Head(docs), q)
       THEN <<Head(docs)>> \o SelectMatching(Tail(docs), q)
       ELSE SelectMatching(Tail(docs), q)

Truncate(s, n) == IF Len(s) <= n THEN s ELSE SubSeq(s, 1, n)

\* a result dict; its title is kept as the pieces of the formatted text
ToHit(d) == [title |-> <<d.title>>, path |-> d.path]

\* the result list: the matching documents, cut to limit.  Scores are not
\* modelled; the hits come in document-number order.
Hits(docs, q, limit) ==
  LET m == Truncate(SelectMatching(docs, q), limit)
  IN  [i \in 1..Len(m) |-> ToHit(m[i])]

NoIndexText == "(no index) You searched for: "

PlaceholderHit(q) == [path |-> "", title |-> <<NoIndexText, q>>]

\* variant: the docstring's "an empty list is returned"
Placeholder_Empty(q) == <<>>

Placeholder(q) == <<PlaceholderHit(q)>>

(* --------------------------------------------------------------- records *)
\* the SegmentWriter an add_documents call is working with: the committed
\* documents it still keeps and the documents it has added
NoWriter == [active |-> FALSE, op |-> "", batch |-> <<>>,
             kept |-> <<>>, pending |-> <<>>]

\* history: the latest call event (a call that returned or raised, or an
\* add_documents that has obtained its writer), with what the claims read
NoOp == [op |-> "none", eng |-> "", batch |-> <<>>, query |-> "", limit |-> 0,
         res |-> "", hits |-> <<>>, pre |-> <<>>, preState |-> "",
         preLock |-> ""]

Call(op, e) == [NoOp EXCEPT !.op = op, !.eng = e]

Done(rec) == last' = rec

(* ------------------------------------------------------------------ Init *)
\* what the index directory holds before the program first runs: nothing,
\* or files that index.open_dir cannot read
InitDisks ==
  {[state |-> "absent", docs |-> <<>>], [state |-> "corrupt", docs |-> <<>>]}

Init ==
  /\ disk \in InitDisks
  /\ index_dir = [e \in Engines |-> TRUE]
  /\ pc = [e \in Engines |-> "new"]
  /\ ix = [e \in Engines |-> FALSE]
  /\ writer = [e \in Engines |-> NoWriter]
  /\ lock = "free"
  /\ last = NoOp

(* ------------------------------------------------------------ operations *)
\* index.open_dir(index_dir) returns an index (it takes no lock)
CanOpen(d) == d.state = "index"

has_index(e) == ix[e]

\* variant: load_index keeps whatever handle the engine had
LoadedHandle_Stale(e, hasDir) == ix[e]

\* the value load_index leaves in _ix (TRUE: a handle, FALSE: None)
LoadedHandle(e, hasDir) == IF hasDir THEN CanOpen(disk) ELSE ix[e]

\* SearchEngine(index_dir): the constructor, which calls load_index
Construct(e) ==
  /\ pc[e] = "new"
  /\ \E hasDir \in BOOLEAN :
       /\ index_dir' = [index_dir EXCEPT ![e] = hasDir]
       /\ ix' = [ix EXCEPT ![e] = LoadedHandle(e, hasDir)]
  /\ pc' = [pc EXCEPT ![e] = "idle"]
  /\ UNCHANGED <<disk, writer, lock>>
  /\ Done([Call("init", e) EXCEPT !.res = "ok", !.preState = disk.state,
                                  !.preLock = lock])

load_index(e) ==
  /\ pc[e] = "idle"
  /\ ix' = [ix EXCEPT ![e] = LoadedHandle(e, index_dir[e])]
  /\ UNCHANGED <<disk, index_dir, pc, writer, lock>>
  /\ Done([Call("load_index", e) EXCEPT !.res = "ok", !.preState = disk.state,
                                        !.preLock = lock])

\* variant: create_in opens the existing index instead of replacing it
CreatedIndex_KeepDocs == [state |-> "index", docs |-> disk.docs]

\* index.create_in: the old table of contents is dropped, an empty one written
CreatedIndex == [state |-> "index", docs |-> <<>>]

create_index(e) ==
  /\ pc[e] = "idle"
  /\ IF index_dir[e]
     THEN /\ disk' = CreatedIndex
          /\ ix' = [ix EXCEPT ![e] = TRUE]
          /\ Done([Call("create_index", e) EXCEPT
                     !.res = "ok", !.pre = disk.docs, !.preState = disk.state])
     ELSE /\ UNCHANGED <<disk, ix>>
          /\ Done([Call("create_index", e) EXCEPT !.res = "ValueError"])
  /\ UNCHANGED <<index_dir, pc, writer, lock>>

\* backend start-up: construct the engine; create the index if none loaded
\* (the index_directory call that may follow is the action index_directory)
Startup(e) ==
  /\ pc[e] = "new"
  /\ index_dir' = [index_dir EXCEPT ![e] = TRUE]
  /\ pc' = [pc EXCEPT ![e] = "idle"]
  /\ ix' = [ix EXCEPT ![e] = TRUE]
  /\ IF CanOpen(disk)
     THEN /\ disk' = disk
          /\ Done([Call("startup", e) EXCEPT
                     !.res = "loaded", !.preState = disk.state])
     ELSE /\ disk' = CreatedIndex
          /\ Done([Call("startup", e) EXCEPT
                     !.res = "created", !.preState = disk.state])
  /\ UNCHANGED <<writer, lock>>

(* ---------------------------------------------------------------- writer *)
HasPath(d) == "path" \in DOMAIN d

\* variant: add_document, which deletes nothing
update_document_NoDelete(w, d) == [w EXCEPT !.pending = Append(w.pending, d)]

\* variant: the new document also replaces the ones this writer has added
update_document_Upsert(w, d) ==
  [w EXCEPT !.kept = SelectSeq(w.kept, LAMBDA c : c.path # d.path),
            !.pending = Append(SelectSeq(w.pending, LAMBDA c : c.path # d.path),
                               d)]

\* writer.update_document(path=..., title=...): path is the unique field
update_document(w, d) ==
  [w EXCEPT !.kept = SelectSeq(w.kept, LAMBDA c : c.path # d.path),
            !.pending = Append(w.pending, d)]

RECURSIVE UpdateAll(_, _)
\* the loop of add_documents
UpdateAll(w, batch) ==
  IF batch = <<>> THEN w
  ELSE UpdateAll(update_document(w, Head(batch)), Tail(batch))

\* the documents a writer publishes on commit
Segments(w) == w.kept \o w.pending

\* the writer ix.writer() returns for a call
NewWriter(op, batch) ==
  [active |-> TRUE, op |-> op, batch |-> batch,
   kept |-> disk.docs, pending |-> <<>>]

\* doc["path"] raises KeyError for some document of the batch
Raises(batch) == \E k \in DOMAIN batch : ~HasPath(batch[k])

\* the whole of add_documents on a store holding docs, for a batch that
\* raises nothing
CommitBatch(docs, batch) ==
  Segments(UpdateAll([NoWriter EXCEPT !.kept = docs], batch))

\* the store stays within the modelled size
Fits(batch) ==
  IF Raises(batch) THEN TRUE ELSE Len(CommitBatch(disk.docs, batch)) <= MaxDocs

\* add_documents up to and including ix.writer()
BeginWrite(e, op, batch) ==
  /\ pc[e] = "idle"
  /\ Fits(batch)
  /\ IF ~ix[e]
     THEN /\ UNCHANGED <<pc, writer, lock>>
          /\ Done([Call(op, e) EXCEPT !.res = "RuntimeError"])
     ELSE IF lock # "free"
     THEN /\ UNCHANGED <<pc, writer, lock>>
          /\ Done([Call(op, e) EXCEPT !.res = "LockError", !.preLock = lock])
     ELSE /\ pc' = [pc EXCEPT ![e] = "writing"]
          /\ writer' = [writer EXCEPT ![e] = NewWriter(op, batch)]
          /\ lock' = "held"
          /\ Done([Call(op, e) EXCEPT !.res = "writing"])
  /\ UNCHANGED <<disk, index_dir, ix>>

add_documents(e) == \E batch \in Batches : BeginWrite(e, "add_documents", batch)

\* the orders in which os.walk can yield the regular files fs of a tree
Orderings(fs) ==
  {s \in [1..Cardinality(fs) -> fs] : \A i, j \in DOMAIN s : s[i] = s[j] => i = j}

WalkDocs(order) ==
  [k \in DOMAIN order |-> [path |-> order[k], title |-> Basename(order[k])]]

index_directory(e) ==
  \E fs \in SUBSET Paths : \E order \in Orderings(fs) :
    IF ix[e] /\ fs = {}
    THEN /\ pc[e] = "idle"
         /\ UNCHANGED progVars
         /\ Done([Call("index_directory", e) EXCEPT !.res = "ok",
                                                     !.pre = disk.docs])
    ELSE BeginWrite(e, "index_directory", WalkDocs(order))

\* add_documents from the loop to writer.commit().  The loop works on the
\* writer's own buffers, so no other process can see its turns.
FinishWrite(e) ==
  /\ pc[e] = "writing"
  /\ LET w == writer[e]
     IN IF Raises(w.batch)
        THEN \* KeyError leaves the loop; the writer is abandoned, neither
             \* committed nor cancelled, still holding the write lock
             /\ disk' = disk
             /\ lock' = "leaked"
             /\ Done([Call(w.op, e) EXCEPT !.batch = w.batch, !.pre = w.kept,
                                           !.res = "KeyError"])
        ELSE /\ disk' = [state |-> "index",
                         docs |-> Segments(UpdateAll(w, w.batch))]
             /\ lock' = "free"
             /\ Done([Call(w.op, e) EXCEPT !.batch = w.batch, !.pre = w.kept,
                                           !.res = "ok"])
  /\ writer' = [writer EXCEPT ![e] = NoWriter]
  /\ pc' = [pc EXCEPT ![e] = "idle"]
  /\ UNCHANGED <<index_dir, ix>>

\* the abandoned writer is garbage-collected: its lock is released
CollectWriter ==
  /\ lock = "leaked"
  /\ lock' = "free"
  /\ UNCHANGED <<disk, index_dir, pc, ix, writer, last>>

(* ---------------------------------------------------------------- search *)
\* variant: the parse error is not caught
SearchResult_ParseErrorEscapes(loaded, docs, q, limit) ==
  IF ~loaded THEN [res |-> "ok", hits |-> Placeholder(q)]
  ELSE IF ParseRaises(q) THEN [res |-> "ParseError", hits |-> <<>>]
  ELSE IF limit < 1 THEN [res |-> "ValueError", hits |-> <<>>]
  ELSE [res |-> "ok", hits |-> Hits(docs, q, limit)]

\* what search returns (res "ok") or raises
SearchResult(loaded, docs, q, limit) ==
  IF ~loaded THEN [res |-> "ok", hits |-> Placeholder(q)]
  ELSE IF ParseRaises(q) THEN [res |-> "ok", hits |-> <<>>]
  ELSE IF limit < 1 THEN [res |-> "ValueError", hits |-> <<>>]
  ELSE [res |-> "ok", hits |-> Hits(docs, q, limit)]

search(e) ==
  /\ pc[e] = "idle"
  /\ \E q \in Queries, limit \in Limits :
       LET r == SearchResult(ix[e], disk.docs, q, limit)
       IN Done([Call("search", e) EXCEPT !.query = q, !.limit = limit,
                                         !.res = r.res, !.hits = r.hits])
  /\ UNCHANGED progVars

Next ==
  \/ \E e \in Engines : Construct(e)
  \/ \E e \in Engines : Startup(e)
  \/ \E e \in Engines : load_index(e)
  \/ \E e \in Engines : create_index(e)
  \/ \E e \in Engines : add_documents(e)
  \/ \E e \in Engines : index_directory(e)
  \/ \E e \in Engines : FinishWrite(e)
  \/ \E e \in Engines : search(e)
  \/ CollectWriter

Spec == Init /\ [][Next]_vars

(* ---------------------------------------------------------------- claims *)
Range(s) == {s[i] : i \in DOMAIN s}

\* the number of entries of a document or result sequence that carry path p
CountAt(s, p) == Cardinality({i \in DOMAIN s : s[i].path = p})

Reorderings(s) ==
  {[i \in DOMAIN s |-> s[f[i]]] :
     f \in {g \in [DOMAIN s -> DOMAIN s] :
              \A i, j \in DOMAIN s : g[i] = g[j] => i = j}}

Committing == {"add_documents", "index_directory"}

\* a search on a loaded index that can show every stored document
FullSearch == last.op = "search" /\ ix[last.eng] /\ last.res = "ok"
              /\ last.limit >= Len(disk.docs)

\* C1: the index holds at most one document per path, and a search whose
\* query matches the title of a document stored under a path returns the
\* document at that path exactly once.
C1_OneDocumentPerPath ==
  /\ \A p \in Paths : CountAt(disk.docs, p) <= 1
  /\ FullSearch =>
       \A d \in Range(disk.docs) :
         (Tokens(last.query) # {} /\ Tokens(last.query) \subseteq Tokens(d.title))
           => CountAt(last.hits, d.path) = 1

\* C2: after a commit of {path P, title T1} and a following commit of
\* {path P, title T2}, every search for terms of T2 finds exactly one
\* document at P, and every search with a term that is in neither T2 nor P
\* finds no document at P.
C2_Premise ==
  /\ last.op \in Committing /\ last.res = "ok"
  /\ Len(last.batch) = 1
  /\ CountAt(last.pre, last.batch[1].path) >= 1

C2_LastCommitWins ==
  C2_Premise =>
    LET d == last.batch[1]
    IN \A q \in Queries, limit \in Limits :
         LET r == SearchResult(TRUE, disk.docs, q, limit)
         IN (limit >= 1 /\ limit >= Len(disk.docs) /\ ~ParseRaises(q)) =>
              /\ (Tokens(q) # {} /\ Tokens(q) \subseteq Tokens(d.title))
                   => (r.res = "ok" /\ CountAt(r.hits, d.path) = 1)
              /\ (\E w \in Tokens(q) : w \notin Tokens(d.title) /\ w # d.path)
                   => (r.res = "ok" /\ CountAt(r.hits, d.path) = 0)

C2_Witness ==
  /\ C2_Premise
  /\ \E old \in Range(last.pre) :
       /\ old.path = last.batch[1].path
       /\ Tokens(old.title) \ Tokens(last.batch[1].title) # {}

C4_AtMostLimitNeverRaises ==
  last.op = "search" => (last.res = "ok" /\ Len(last.hits) <= last.limit)

\* C5: on a populated, loaded index a query that fails to parse yields the
\* empty sequence, no error reaches the caller, and the index is unchanged.
C5_ParseErrorGivesEmpty ==
  [][(/\ last'.op = "search" /\ last' # last
      /\ ix'[last'.eng] /\ disk.docs # <<>> /\ ParseRaises(last'.query)) =>
       /\ last'.res = "ok"
       /\ last'.hits = <<>>
       /\ UNCHANGED progVars]_vars

C5_Witness ==
  /\ last.op = "search" /\ ix[last.eng] /\ disk.docs # <<>>
  /\ ParseRaises(last.query) /\ last.hits = <<>> /\ last.res = "ok"

\* C6 (as claimed): has_index is true iff opening the index at the
\* engine's index_dir would now return a usable handle.
C6_HasIndexTracksStore ==
  \A e \in Engines :
    pc[e] # "new" => (has_index(e) <=> (index_dir[e] /\ CanOpen(disk)))

\* C6 (amended): has_index tells whether this engine holds a handle.  It is
\* set by the engine's own calls: after the constructor or load_index it is
\* true iff the index could be opened then, after create_index it is true;
\* whenever it is true the index can be opened.
C6_HasIndexIsOwnHandle ==
  /\ \A e \in Engines : has_index(e) => (index_dir[e] /\ CanOpen(disk))
  /\ (last.op \in {"init", "load_index"} /\ index_dir[last.eng])
       => (has_index(last.eng) <=> CanOpen(disk))
  /\ (last.op = "init" /\ last.preState = "absent") => ~has_index(last.eng)
  /\ (last.op = "create_index" /\ last.res = "ok") => has_index(last.eng)

C6_Witness ==
  /\ last.op = "create_index" /\ last.res = "ok" /\ last.preState = "absent"
  /\ has_index(last.eng)
  /\ \E o \in Engines \ {last.eng} :
       pc[o] = "idle" /\ index_dir[o] /\ ~has_index(o)

\* C7 (as claimed): create_index on a non-empty index fails with
\* AlreadyExists and leaves the committed documents in place.
C7_CreateRefusesNonEmpty ==
  (last.op = "create_index" /\ last.pre # <<>>) =>
    (last.res = "AlreadyExists" /\ disk.docs = last.pre)

\* C7 (amended): create_index on a location that holds a non-empty index
\* succeeds and replaces it with an empty index: when it returns, the
\* engine has a handle and no search finds a document.
C7_CreateOverwrites ==
  (last.op = "create_index" /\ index_dir[last.eng]) =>
    /\ last.res = "ok"
    /\ has_index(last.eng)
    /\ disk.state = "index" /\ disk.docs = <<>>
    /\ \A q \in Queries, limit \in Limits :
         SearchResult(ix[last.eng], disk.docs, q, limit).hits = <<>>

C7_Witness ==
  /\ last.op = "create_index" /\ last.res = "ok" /\ last.pre # <<>>
  /\ disk.docs = <<>>

\* C8: batches become visible atomically: the stored documents change only
\* by a whole batch (or by the creation of an index); an add_documents that
\* raises part-way shows none of its documents and surfaces the error; and
\* add_documents is refused only while another writer is at work, so a
\* later add_documents of the same engine can commit.
C8_AtomicBatches ==
  [][/\ (disk'.docs # disk.docs) =>
          \/ last'.op \in {"create_index", "startup"}
          \/ /\ last'.op \in Committing /\ last'.res = "ok"
             /\ disk'.docs = CommitBatch(last'.pre, last'.batch)
     /\ (last'.op \in Committing /\ last'.res = "KeyError" /\ last' # last)
          => disk' = disk
     /\ (last'.op \in Committing /\ last'.res = "LockError")
          => (\E o \in Engines : pc'[o] = "writing")]_vars

\* C9: load_index tells an index that exists but cannot be opened (corrupt,
\* or locked by a writer) from an absent one, and start-up never recreates
\* over an existing store.
C9_LoadDistinguishesCorrupt ==
  /\ (last.op \in {"init", "load_index"} /\ index_dir[last.eng]
        /\ last.preState = "corrupt") => last.res = "Corrupt"
  /\ (last.op \in {"init", "load_index"} /\ index_dir[last.eng]
        /\ last.preLock = "held") => last.res = "Locked"
  /\ (last.op = "startup" /\ last.preState = "corrupt") => last.res # "created"

\* C10: committing a batch and committing any permutation of it from the
\* same starting state leave the same set of (path, title) records.
C10_BatchOrderIrrelevant ==
  (last.op \in Committing /\ last.res = "ok") =>
    \A b \in Reorderings(last.batch) :
      Range(CommitBatch(last.pre, b)) = Range(disk.docs)

C10_Witness ==
  /\ last.op = "add_documents" /\ last.res = "ok"
  /\ Len(last.batch) = 2
  /\ last.batch[1].path = last.batch[2].path
  /\ last.batch[1].title # last.batch[2].title
  /\ CountAt(last.pre, last.batch[1].path) = 1
====
